---- MODULE Spec2Model ----
(***************************************************************************)
(* Model of modi.py: the Quectel RM520N-GL network data extractor.         *)
(*                                                                         *)
(* Python strings are sequences of one-character strings, so that split,   *)
(* strip, startswith, substring containment, int() and str() are computed  *)
(* as the code computes them.  A Python list index i is position i + 1 of  *)
(* the sequence; At(parts, i) keeps the source's indices.                  *)
(***************************************************************************)
EXTENDS Integers, Sequences, FiniteSets, TLC

VARIABLES
    modem,        \* the device: for every AT command, what the serial port delivers
    serial_open,  \* ATCommandInterface.serial_conn is set and is_open
    data,         \* the NetworkData record under construction / last extracted
    done,         \* decoder harness: the decoders already applied to data
    pc,           \* position in the running operation
    running,      \* NetworkMonitor.running
    csv_file,     \* DataLogger.csv_file: "none", "open" or "closed"
    is_initialized, \* DataLogger.is_initialized
    csv_buf,      \* rows written to csv_file and not yet flushed
    disk,         \* the rows of the sink file on disk
    cycles,       \* calls of extract_all_data (of log_data, for the logger alone)
    exc,          \* the exception that ended the polling loop, and where it arrived
    result,       \* what start() returned: "none" (not yet), "True" or "False"
    response_lines  \* what the last send_command call returned

vars == <<modem, serial_open, data, done, pc, running, csv_file, is_initialized,
          csv_buf, disk, cycles, exc, result,
          response_lines>>

-----------------------------------------------------------------------------
(* Python str operations *)

Whitespace == {" ", "\t", "\r", "\n"}
Quote == {"\""}
DigitChars == <<"0", "1", "2", "3", "4", "5", "6", "7", "8", "9">>

Range(s) == {s[i] : i \in 1..Len(s)}

\* s.strip(chars)
Strip(s, chars) ==
    LET keep == {i \in 1..Len(s) : s[i] \notin chars}
    IN  IF keep = {} THEN <<>>
        ELSE SubSeq(s, CHOOSE i \in keep : \A j \in keep : i <= j,
                       CHOOSE i \in keep : \A j \in keep : j <= i)

\* s.startswith(p)
StartsWith(s, p) == Len(s) >= Len(p) /\ SubSeq(s, 1, Len(p)) = p

\* sub in s
Contains(s, sub) ==
    \E i \in 1..(Len(s) - Len(sub) + 1) : SubSeq(s, i, i + Len(sub) - 1) = sub

\* s.split(sep), sep one character
Split(s, sep) ==
    LET at == {i \in 1..Len(s) : s[i] = sep}
        n == Cardinality(at)
        cut == [k \in 0..(n + 1) |->
                   IF k = 0 THEN 0
                   ELSE IF k = n + 1 THEN Len(s) + 1
                   ELSE CHOOSE i \in at : Cardinality({j \in at : j < i}) = k - 1]
    IN  [k \in 1..(n + 1) |-> SubSeq(s, cut[k - 1] + 1, cut[k] - 1)]

\* s.split(sep, 1)
SplitOnce(s, sep) ==
    LET at == {i \in 1..Len(s) : s[i] = sep}
    IN  IF at = {} THEN <<s>>
        ELSE LET i == CHOOSE i \in at : \A j \in at : i <= j
             IN  <<SubSeq(s, 1, i - 1), SubSeq(s, i + 1, Len(s))>>

\* The value an uncaught IndexError leaves in place of the element read: it is
\* no character, so no str operation removes it.
IndexError == <<"IndexError">>

\* parts[i], with the source's 0-based index
At(parts, i) == IF i < Len(parts) THEN parts[i + 1] ELSE IndexError

\* sep.join(list)
RECURSIVE Join(_, _)
Join(sep, list) ==
    IF list = <<>> THEN <<>>
    ELSE IF Len(list) = 1 THEN list[1]
    ELSE list[1] \o sep \o Join(sep, Tail(list))

DigitValue(c) == (CHOOSE d \in 1..10 : DigitChars[d] = c) - 1

\* Whether int(s) succeeds: surrounding whitespace, an optional sign, then
\* digits with single underscores allowed between them.
IsInt(s) ==
    LET t == Strip(s, Whitespace)
        u == IF t # <<>> /\ t[1] \in {"+", "-"} THEN Tail(t) ELSE t
    IN  /\ u # <<>>
        /\ \A i \in 1..Len(u) : u[i] \in Range(DigitChars) \cup {"_"}
        /\ u[1] # "_" /\ u[Len(u)] # "_"
        /\ \A i \in 1..(Len(u) - 1) : ~(u[i] = "_" /\ u[i + 1] = "_")

RECURSIVE DigitsValue(_)
DigitsValue(u) ==
    IF u = <<>> THEN 0
    ELSE IF u[Len(u)] = "_" THEN DigitsValue(SubSeq(u, 1, Len(u) - 1))
    ELSE 10 * DigitsValue(SubSeq(u, 1, Len(u) - 1)) + DigitValue(u[Len(u)])

\* int(s), for s with IsInt(s)
ParseInt(s) ==
    LET t == Strip(s, Whitespace)
    IN  IF t[1] = "-" THEN 0 - DigitsValue(Tail(t))
        ELSE IF t[1] = "+" THEN DigitsValue(Tail(t))
        ELSE DigitsValue(t)

RECURSIVE NatToStr(_)
NatToStr(n) ==
    IF n < 10 THEN <<DigitChars[n + 1]>>
    ELSE NatToStr(n \div 10) \o <<DigitChars[(n % 10) + 1]>>

\* str(n)
IntToStr(n) == IF n < 0 THEN <<"-">> \o NatToStr(0 - n) ELSE NatToStr(n)

\* max(values), values a non-empty list of integers
Max(values) == CHOOSE m \in Range(values) : \A v \in Range(values) : v <= m

-----------------------------------------------------------------------------
(* NetworkData *)

\* The dataclass fields, in declaration order
FieldNames ==
    <<"timestamp", "rrc_state", "cell_type", "technology",
      "mcc", "mnc", "cell_id", "pci", "tac_lac",
      "earfcn_arfcn", "band", "bandwidth", "scs",
      "rsrp", "rsrq", "rssi", "sinr", "cqi", "tx_power",
      "cs_state", "cs_lac", "cs_ci", "ps_state", "ps_lac", "ps_ci",
      "eps_state", "eps_tac", "eps_ci", "nr5g_state", "nr5g_tac", "nr5g_ci",
      "sim_state", "operator", "operator_mcc_mnc", "attach_state",
      "neighbor_count", "best_neighbor_rsrp", "neighbor_cells_json",
      "csq_rssi", "csq_ber", "serving_cell_count", "ca_info">>

\* The two fields declared int
IntFields == {"neighbor_count", "serving_cell_count"}

\* NetworkData(): every str field "", every int field 0
NetworkData ==
    [f \in Range(FieldNames) |-> IF f \in IntFields THEN 0 ELSE <<>>]

\* datetime.now().strftime("%Y-%m-%d %H:%M:%S.%f")[:-3], for the clock at
\* tick seconds past a fixed minute
Timestamp(tick) ==
    <<"2","0","2","5","-","0","1","-","0","1"," ","0","0",":","0","0",":">> \o (IF tick < 10 THEN <<"0">> ELSE <<>>) \o NatToStr(tick)
        \o <<".","0","0","0">>

-----------------------------------------------------------------------------
(* ATCommandInterface.send_command *)

S_OK == <<"O","K">>
S_ERROR == <<"E","R","R","O","R">>
S_CME_ERROR == <<"+","C","M","E"," ","E","R","R","O","R">>

\* line in ['OK', 'ERROR'] or line.startswith('+CME ERROR')
IsTerminator(line) ==
    line = S_OK \/ line = S_ERROR \/ StartsWith(line, S_CME_ERROR)

NonEmpty(line) == line # <<>>

\* A bug to test against: the loop reads on after a terminator, to the timeout.
ReadResponseToTimeout(dev) ==
    SelectSeq([i \in 1..dev.arrived |-> Strip(dev.lines[i], Whitespace)], NonEmpty)

\* The read loop: of the lines that arrive before the timeout, stripped, the
\* non-empty ones up to and including the first terminator.
ReadResponse(dev) ==
    LET stripped == [i \in 1..dev.arrived |-> Strip(dev.lines[i], Whitespace)]
        stops == {i \in 1..dev.arrived : IsTerminator(stripped[i])}
        last == IF stops = {} THEN dev.arrived
                ELSE CHOOSE i \in stops : \A j \in stops : i <= j
    IN  SelectSeq(SubSeq(stripped, 1, last), NonEmpty)

\* A bug to test against: the lines read before a transport fault are returned.
SendCommandKeepsPartial(open, command) ==
    IF ~open THEN <<>> ELSE ReadResponse(modem[command])

\* send_command with the port open or not
SendCommandOn(open, command) ==
    IF ~open THEN <<>>
    ELSE IF modem[command].fault THEN <<>>
    ELSE ReadResponse(modem[command])

SendCommand(command) == SendCommandOn(serial_open, command)

\* _check_ok: any('OK' in line for line in response)
CheckOk(response) == \E i \in 1..Len(response) : Contains(response[i], S_OK)

AT_PROBE == "AT"
AT_SERVINGCELL == "AT+QENG=\"servingcell\""
AT_CREG == "AT+CREG?"
AT_CGREG == "AT+CGREG?"
AT_CEREG == "AT+CEREG?"
AT_C5GREG == "AT+C5GREG?"
AT_CPIN == "AT+CPIN?"
AT_COPS == "AT+COPS?"
AT_CGATT == "AT+CGATT?"
AT_NEIGHBOURCELL == "AT+QENG=\"neighbourcell\""
AT_CSQ == "AT+CSQ"
AT_QCAINFO == "AT+QCAINFO"

\* The 11 queries of one sampling cycle, in the order extract_all_data issues them
Queries ==
    <<AT_SERVINGCELL, AT_CREG, AT_CGREG, AT_CEREG, AT_C5GREG, AT_CPIN, AT_COPS,
      AT_CGATT, AT_NEIGHBOURCELL, AT_CSQ, AT_QCAINFO>>

Commands == Range(Queries) \cup {AT_PROBE}

-----------------------------------------------------------------------------
(* Serving cell *)

\* One entry of a field-position table: data.<f> = parts[i].strip('"'), and
\* with opt the source's guard: ... if len(parts) > i else ""
Pos(f, i) == [f |-> f, i |-> i, opt |-> FALSE]
OptPos(f, i) == [f |-> f, i |-> i, opt |-> TRUE]

\* The assignments of a try block in order: an unguarded index out of range
\* raises IndexError, which the block's except catches, so the assignments
\* before it stand and the rest are not made.
AssignFields(d, parts, map) ==
    LET bad == {k \in 1..Len(map) : ~map[k].opt /\ map[k].i >= Len(parts)}
        n == IF bad = {} THEN Len(map)
             ELSE (CHOOSE k \in bad : \A j \in bad : k <= j) - 1
        Value(k) == IF map[k].i < Len(parts)
                    THEN Strip(parts[map[k].i + 1], Quote) ELSE <<>>
    IN  [f \in DOMAIN d |->
            IF \E k \in 1..n : map[k].f = f
            THEN Value(CHOOSE k \in 1..n :
                         map[k].f = f /\ \A j \in 1..n : map[j].f = f => j <= k)
            ELSE d[f]]

S_QENG_SERVINGCELL == <<"+","Q","E","N","G",":"," ","\"","s","e","r","v","i","n","g","c","e","l","l","\"">>
S_QENG_LTE == <<"+","Q","E","N","G",":"," ","\"","L","T","E","\"">>
S_QENG_NR5G_NSA == <<"+","Q","E","N","G",":"," ","\"","N","R","5","G","-","N","S","A","\"">>
S_LTE == <<"L","T","E">>
S_NR5G_SA == <<"N","R","5","G","-","S","A">>
S_NR5G_NSA == <<"N","R","5","G","-","N","S","A">>
S_WCDMA == <<"W","C","D","M","A">>
S_serving == <<"s","e","r","v","i","n","g">>

LteMap(off) ==
    <<Pos("mcc", 3 + off), Pos("mnc", 4 + off), Pos("cell_id", 5 + off),
      Pos("pci", 6 + off), Pos("earfcn_arfcn", 7 + off), Pos("band", 8 + off),
      OptPos("bandwidth", 9 + off), Pos("tac_lac", 11 + off), Pos("rsrp", 12 + off),
      Pos("rsrq", 13 + off), Pos("rssi", 14 + off), Pos("sinr", 15 + off),
      OptPos("cqi", 16 + off), OptPos("tx_power", 17 + off)>>

ParseLteServing(parts, d) ==
    IF Len(parts) >= 18
    THEN LET idx_offset == IF StartsWith(At(parts, 0), S_QENG_LTE) THEN 1 ELSE 0
         IN  AssignFields(d, parts, LteMap(idx_offset))
    ELSE d

Nr5gSaMap ==
    <<Pos("mcc", 4), Pos("mnc", 5), Pos("cell_id", 6), Pos("pci", 7),
      Pos("tac_lac", 8), Pos("earfcn_arfcn", 9), Pos("band", 10),
      OptPos("bandwidth", 11), Pos("rsrp", 12), Pos("rsrq", 13), Pos("sinr", 14),
      OptPos("rssi", 15), OptPos("tx_power", 16)>>

ParseNr5gSaServing(parts, d) ==
    IF Len(parts) >= 17 THEN AssignFields(d, parts, Nr5gSaMap) ELSE d

Nr5gNsaMap ==
    <<Pos("mcc", 1), Pos("mnc", 2), Pos("pci", 3), Pos("rsrp", 4), Pos("sinr", 5),
      Pos("rsrq", 6), Pos("earfcn_arfcn", 7), Pos("band", 8),
      OptPos("bandwidth", 9), OptPos("scs", 10)>>

ParseNr5gNsaServing(parts, d) ==
    IF Len(parts) >= 11 THEN AssignFields(d, parts, Nr5gNsaMap) ELSE d

WcdmaMap ==
    <<Pos("mcc", 4), Pos("mnc", 5), Pos("tac_lac", 6), Pos("cell_id", 7),
      Pos("earfcn_arfcn", 8), Pos("pci", 9), Pos("rsrp", 11), Pos("rsrq", 12)>>

\* A bug to test against: the minimum token count is not checked.
ParseWcdmaServingNoMinimum(parts, d) == AssignFields(d, parts, WcdmaMap)

ParseWcdmaServing(parts, d) ==
    IF Len(parts) >= 17 THEN AssignFields(d, parts, WcdmaMap) ELSE d

\* The body of the loop of _extract_serving_cell for one line
ServingCellLine(line, d) ==
    IF StartsWith(line, S_QENG_SERVINGCELL)
    THEN LET parts == Split(line, ",")
         IN  IF Len(parts) >= 3
             THEN LET common == [d EXCEPT !.rrc_state = Strip(At(parts, 1), Quote),
                                          !.technology = Strip(At(parts, 2), Quote),
                                          !.cell_type = S_serving]
                  IN  IF Contains(common.technology, S_LTE)
                        THEN ParseLteServing(parts, common)
                      ELSE IF Contains(common.technology, S_NR5G_SA)
                        THEN ParseNr5gSaServing(parts, common)
                      ELSE IF Contains(common.technology, S_NR5G_NSA)
                        THEN ParseNr5gNsaServing(parts, common)
                      ELSE IF Contains(common.technology, S_WCDMA)
                        THEN ParseWcdmaServing(parts, common)
                      ELSE common
             ELSE d
    ELSE IF StartsWith(line, S_QENG_LTE) \/ StartsWith(line, S_QENG_NR5G_NSA)
    THEN [d EXCEPT !.serving_cell_count = @ + 1]
    ELSE d

RECURSIVE ServingCellLoop(_, _)
ServingCellLoop(lines, d) ==
    IF lines = <<>> THEN d
    ELSE ServingCellLoop(Tail(lines), ServingCellLine(Head(lines), d))

ExtractServingCell(d) == ServingCellLoop(SendCommand(AT_SERVINGCELL), d)

-----------------------------------------------------------------------------
(* NAS registration states *)

S_UNKNOWN_ == <<"U","N","K","N","O","W","N","_">>

\* The states dict of _decode_reg_state
RegStates ==
    << <<<<"0">>, <<"N","O","T","_","R","E","G","I","S","T","E","R","E","D">>>>,
       <<<<"1">>, <<"R","E","G","I","S","T","E","R","E","D","_","H","O","M","E">>>>,
       <<<<"2">>, <<"S","E","A","R","C","H","I","N","G">>>>,
       <<<<"3">>, <<"D","E","N","I","E","D">>>>,
       <<<<"4">>, <<"U","N","K","N","O","W","N">>>>,
       <<<<"5">>, <<"R","E","G","I","S","T","E","R","E","D","_","R","O","A","M","I","N","G">>>>,
       <<<<"6">>, <<"R","E","G","I","S","T","E","R","E","D","_","S","M","S","_","O","N","L","Y","_","H","O","M","E">>>>,
       <<<<"7">>, <<"R","E","G","I","S","T","E","R","E","D","_","S","M","S","_","O","N","L","Y","_","R","O","A","M","I","N","G">>>>,
       <<<<"8">>, <<"E","M","E","R","G","E","N","C","Y","_","O","N","L","Y">>>>,
       <<<<"9">>, <<"R","E","G","I","S","T","E","R","E","D","_","C","S","F","B","_","N","O","T","_","P","R","E","F","E","R","R","E","D","_","H","O","M","E">>>>,
       <<<<"1","0">>, <<"R","E","G","I","S","T","E","R","E","D","_","C","S","F","B","_","N","O","T","_","P","R","E","F","E","R","R","E","D","_","R","O","A","M","I","N","G">>>> >>

\* A bug to test against: the names of two codes exchanged.
DecodeRegStateSwapped(state) ==
    IF state = <<"5">> THEN <<"R","E","G","I","S","T","E","R","E","D","_","H","O","M","E">>
    ELSE IF state = <<"1">> THEN <<"R","E","G","I","S","T","E","R","E","D","_","R","O","A","M","I","N","G">>
    ELSE IF \E k \in 1..Len(RegStates) : RegStates[k][1] = state
    THEN RegStates[CHOOSE k \in 1..Len(RegStates) : RegStates[k][1] = state][2]
    ELSE S_UNKNOWN_ \o state

\* states.get(state, f'UNKNOWN_{state}')
DecodeRegState(state) ==
    IF \E k \in 1..Len(RegStates) : RegStates[k][1] = state
    THEN RegStates[CHOOSE k \in 1..Len(RegStates) : RegStates[k][1] = state][2]
    ELSE S_UNKNOWN_ \o state

S_CREG == <<"+","C","R","E","G",":">>
S_CGREG == <<"+","C","G","R","E","G",":">>
S_CEREG == <<"+","C","E","R","E","G",":">>
S_C5GREG == <<"+","C","5","G","R","E","G",":">>

\* A bug to test against: the identifiers keep their quotes.
RegLineKeepsQuotes(line, prefix, fState, fArea, fCell, d) ==
    IF StartsWith(line, prefix)
    THEN LET parts == Split(line, ",")
         IN  IF Len(parts) >= 2
             THEN LET st == [d EXCEPT
                               ![fState] = DecodeRegState(Strip(At(parts, 1), Whitespace))]
                  IN  IF Len(parts) >= 4
                      THEN [st EXCEPT ![fArea] = At(parts, 2), ![fCell] = At(parts, 3)]
                      ELSE st
             ELSE d
    ELSE d

\* The body of one registration loop for one line: prefix is the marker the
\* line must start with, fState, fArea and fCell the three fields written.
RegLine(line, prefix, fState, fArea, fCell, d) ==
    IF StartsWith(line, prefix)
    THEN LET parts == Split(line, ",")
         IN  IF Len(parts) >= 2
             THEN LET st == [d EXCEPT
                               ![fState] = DecodeRegState(Strip(At(parts, 1), Whitespace))]
                  IN  IF Len(parts) >= 4
                      THEN [st EXCEPT ![fArea] = Strip(At(parts, 2), Quote),
                                      ![fCell] = Strip(At(parts, 3), Quote)]
                      ELSE st
             ELSE d
    ELSE d

RECURSIVE RegLoop(_, _, _, _, _, _)
RegLoop(lines, prefix, fState, fArea, fCell, d) ==
    IF lines = <<>> THEN d
    ELSE RegLoop(Tail(lines), prefix, fState, fArea, fCell,
                 RegLine(Head(lines), prefix, fState, fArea, fCell, d))

ExtractCreg(d) == RegLoop(SendCommand(AT_CREG), S_CREG, "cs_state", "cs_lac", "cs_ci", d)
ExtractCgreg(d) == RegLoop(SendCommand(AT_CGREG), S_CGREG, "ps_state", "ps_lac", "ps_ci", d)
ExtractCereg(d) == RegLoop(SendCommand(AT_CEREG), S_CEREG, "eps_state", "eps_tac", "eps_ci", d)
ExtractC5greg(d) ==
    RegLoop(SendCommand(AT_C5GREG), S_C5GREG, "nr5g_state", "nr5g_tac", "nr5g_ci", d)

ExtractNasStates(d) == ExtractC5greg(ExtractCereg(ExtractCgreg(ExtractCreg(d))))

-----------------------------------------------------------------------------
(* Authentication and security *)

S_CPIN == <<"+","C","P","I","N",":">>
S_COPS == <<"+","C","O","P","S",":">>
S_CGATT == <<"+","C","G","A","T","T",":">>
S_ATTACHED == <<"A","T","T","A","C","H","E","D">>
S_DETACHED == <<"D","E","T","A","C","H","E","D">>

\* line.split(':', 1)[1].strip()
AfterColon(line) == Strip(At(SplitOnce(line, ":"), 1), Whitespace)

CpinLine(line, d) ==
    IF StartsWith(line, S_CPIN) THEN [d EXCEPT !.sim_state = AfterColon(line)] ELSE d

CopsLine(line, d) ==
    IF StartsWith(line, S_COPS)
    THEN LET parts == Split(line, ",")
         IN  IF Len(parts) >= 3
             THEN LET op == [d EXCEPT !.operator = Strip(At(parts, 2), Quote)]
                  IN  IF Len(parts) >= 4
                      THEN [op EXCEPT !.operator_mcc_mnc = Strip(At(parts, 3), Quote)]
                      ELSE op
             ELSE d
    ELSE d

CgattLine(line, d) ==
    IF StartsWith(line, S_CGATT)
    THEN [d EXCEPT !.attach_state =
                      IF AfterColon(line) = <<"1">> THEN S_ATTACHED ELSE S_DETACHED]
    ELSE d

RECURSIVE CpinLoop(_, _)
CpinLoop(lines, d) ==
    IF lines = <<>> THEN d ELSE CpinLoop(Tail(lines), CpinLine(Head(lines), d))

RECURSIVE CopsLoop(_, _)
CopsLoop(lines, d) ==
    IF lines = <<>> THEN d ELSE CopsLoop(Tail(lines), CopsLine(Head(lines), d))

RECURSIVE CgattLoop(_, _)
CgattLoop(lines, d) ==
    IF lines = <<>> THEN d ELSE CgattLoop(Tail(lines), CgattLine(Head(lines), d))

ExtractAuthInfo(d) ==
    CgattLoop(SendCommand(AT_CGATT),
              CopsLoop(SendCommand(AT_COPS), CpinLoop(SendCommand(AT_CPIN), d)))

-----------------------------------------------------------------------------
(* Neighbor cells *)

S_QENG_NEIGHBOURCELL == <<"+","Q","E","N","G",":"," ","\"","n","e","i","g","h","b","o","u","r","c","e","l","l">>
S_5G == <<"5","G">>
S_NA == <<"N","/","A">>
K_tech == <<"t","e","c","h">>
K_rsrp == <<"r","s","r","p">>
K_rscp == <<"r","s","c","p">>

\* One entry of a dict literal: key: parts[i].strip('"'), with opt guarded by
\* if len(parts) > i else ""
Key(k, i) == [k |-> k, i |-> i, opt |-> FALSE]
OptKey(k, i) == [k |-> k, i |-> i, opt |-> TRUE]

LteCell ==
    <<Key(<<"e","a","r","f","c","n">>, 2), Key(<<"p","c","i">>, 3), Key(<<"r","s","r","q">>, 4), Key(K_rsrp, 5),
      Key(<<"r","s","s","i">>, 6), Key(<<"s","i","n","r">>, 7), OptKey(<<"s","r","x","l","e","v">>, 8)>>

WcdmaCell ==
    <<Key(<<"u","a","r","f","c","n">>, 2), Key(<<"p","s","c">>, 5), Key(K_rscp, 6), Key(<<"e","c","i","o">>, 7),
      OptKey(<<"s","r","x","l","e","v">>, 8)>>

Nr5gCell ==
    <<Key(<<"a","r","f","c","n">>, 2), Key(<<"p","c","i">>, 3), Key(K_rsrp, 4), Key(<<"r","s","r","q">>, 5),
      OptKey(<<"s","i","n","r">>, 6)>>

\* cell_info = {'tech': tech, ...}: a dict is its key/value pairs in insertion
\* order.  An unguarded index out of range raises IndexError before the
\* assignment, the except passes, and cell_info stays {}.
CellInfo(tech, parts, keys) ==
    IF \E j \in 1..Len(keys) : ~keys[j].opt /\ keys[j].i >= Len(parts)
    THEN <<>>
    ELSE << <<K_tech, tech>> >> \o
         [j \in 1..Len(keys) |->
            <<keys[j].k,
              IF keys[j].i < Len(parts) THEN Strip(parts[keys[j].i + 1], Quote)
              ELSE <<>> >>]

\* The cell_info of one line, {} when the line is no neighbor-cell line
NeighborLine(line) ==
    IF Contains(line, S_QENG_NEIGHBOURCELL)
    THEN LET parts == Split(line, ",")
         IN  IF Contains(line, S_LTE) THEN CellInfo(S_LTE, parts, LteCell)
             ELSE IF Contains(line, S_WCDMA) THEN CellInfo(S_WCDMA, parts, WcdmaCell)
             ELSE IF Contains(line, S_5G) THEN CellInfo(S_5G, parts, Nr5gCell)
             ELSE <<>>
    ELSE <<>>

\* neighbor_cells after the loop over the lines
NeighborCells(lines) ==
    SelectSeq([i \in 1..Len(lines) |-> NeighborLine(lines[i])], NonEmpty)

HasKey(cell, k) == \E j \in 1..Len(cell) : cell[j][1] = k

\* cell.get(k, default)
Get(cell, k, default) ==
    IF HasKey(cell, k) THEN cell[CHOOSE j \in 1..Len(cell) : cell[j][1] = k][2]
    ELSE default

\* cell.get('rsrp', cell.get('rscp', ''))
CellStrength(cell) == Get(cell, K_rsrp, Get(cell, K_rscp, <<>>))

Usable(rsrp) == rsrp # <<>> /\ rsrp # S_NA /\ IsInt(rsrp)

UsableCell(cell) == Usable(CellStrength(cell))

\* rsrp_values
RsrpValues(cells) ==
    LET usable == SelectSeq(cells, UsableCell)
    IN  [j \in 1..Len(usable) |-> ParseInt(CellStrength(usable[j]))]

\* json.dumps of a list of str -> str dicts, as the tokens of its text
Tok(t) == [t |-> t, s |-> <<>>]
StrTok(s) == [t |-> "string", s |-> s]

JsonMember(pair) == <<StrTok(pair[1]), Tok(":"), StrTok(pair[2])>>

RECURSIVE JsonMembers(_)
JsonMembers(cell) ==
    IF Len(cell) = 1 THEN JsonMember(cell[1])
    ELSE JsonMember(cell[1]) \o <<Tok(",")>> \o JsonMembers(Tail(cell))

JsonObject(cell) == <<Tok("{")>> \o JsonMembers(cell) \o <<Tok("}")>>

RECURSIVE JsonElements(_)
JsonElements(cells) ==
    IF cells = <<>> THEN <<>>
    ELSE IF Len(cells) = 1 THEN JsonObject(cells[1])
    ELSE JsonObject(cells[1]) \o <<Tok(",")>> \o JsonElements(Tail(cells))

JsonDumps(cells) == <<Tok("[")>> \o JsonElements(cells) \o <<Tok("]")>>

\* A bug to test against: min instead of max.
BestNeighborRsrpMin(cells, old) ==
    LET values == RsrpValues(cells)
    IN  IF cells # <<>> /\ values # <<>>
        THEN IntToStr(CHOOSE m \in Range(values) : \A v \in Range(values) : m <= v)
        ELSE old

\* data.best_neighbor_rsrp after lines 445-456: old is its value before
BestNeighborRsrp(cells, old) ==
    LET values == RsrpValues(cells)
    IN  IF cells # <<>> /\ values # <<>> THEN IntToStr(Max(values)) ELSE old

\* A bug to test against: the lines are counted, not the parsed entries.
NeighborCountOfLines(lines, cells) == Len(lines)

\* data.neighbor_count = len(neighbor_cells)
NeighborCount(lines, cells) == Len(cells)

NeighborCellsFrom(lines, d) ==
    LET neighbor_cells == NeighborCells(lines)
    IN  [d EXCEPT !.neighbor_count = NeighborCount(lines, neighbor_cells),
                  !.best_neighbor_rsrp = BestNeighborRsrp(neighbor_cells, @),
                  !.neighbor_cells_json =
                      IF neighbor_cells # <<>> THEN JsonDumps(neighbor_cells) ELSE <<>>]

ExtractNeighborCells(d) == NeighborCellsFrom(SendCommand(AT_NEIGHBOURCELL), d)

-----------------------------------------------------------------------------
(* Additional signal metrics *)

S_CSQ == <<"+","C","S","Q",":">>
S_QCAINFO == <<"+","Q","C","A","I","N","F","O",":">>

CsqLine(line, d) ==
    IF StartsWith(line, S_CSQ)
    THEN LET parts == Split(AfterColon(line), ",")
         IN  IF Len(parts) >= 2
             THEN [d EXCEPT !.csq_rssi = Strip(At(parts, 0), Whitespace),
                            !.csq_ber = Strip(At(parts, 1), Whitespace)]
             ELSE d
    ELSE d

RECURSIVE CsqLoop(_, _)
CsqLoop(lines, d) ==
    IF lines = <<>> THEN d ELSE CsqLoop(Tail(lines), CsqLine(Head(lines), d))

IsQcainfo(line) == StartsWith(line, S_QCAINFO)

\* ca_info after the loop over the lines
CaInfo(lines) ==
    LET matching == SelectSeq(lines, IsQcainfo)
    IN  [j \in 1..Len(matching) |-> AfterColon(matching[j])]

\* A bug to test against: the CSQ value also overwrites the serving cell's rssi.
ExtractSignalMetricsSharesRssi(d) ==
    LET csq == CsqLoop(SendCommand(AT_CSQ), d)
    IN  [csq EXCEPT !.ca_info = Join(<<";", " ">>, CaInfo(SendCommand(AT_QCAINFO))),
                    !.rssi = csq.csq_rssi]

ExtractSignalMetrics(d) ==
    LET csq == CsqLoop(SendCommand(AT_CSQ), d)
    IN  [csq EXCEPT !.ca_info = Join(<<";", " ">>, CaInfo(SendCommand(AT_QCAINFO)))]

-----------------------------------------------------------------------------
(* NetworkDataExtractor.extract_all_data *)

\* The five decoders, in the order extract_all_data calls them
Decoders == <<"serving_cell", "nas_states", "auth_info", "neighbor_cells", "signal_metrics">>

Decode(name, d) ==
    CASE name = "serving_cell" -> ExtractServingCell(d)
      [] name = "nas_states" -> ExtractNasStates(d)
      [] name = "auth_info" -> ExtractAuthInfo(d)
      [] name = "neighbor_cells" -> ExtractNeighborCells(d)
      [] name = "signal_metrics" -> ExtractSignalMetrics(d)

\* A fresh record with its timestamp set
FreshData(tick) == [NetworkData EXCEPT !.timestamp = Timestamp(tick)]

ExtractAllData(tick) ==
    ExtractSignalMetrics(ExtractNeighborCells(ExtractAuthInfo(
        ExtractNasStates(ExtractServingCell(FreshData(tick))))))

\* An exception escaped a decoder: the record holds what the failed read left
Raised(d) ==
    \E f \in DOMAIN d \ (IntFields \cup {"neighbor_cells_json"}) :
        \E i \in 1..Len(d[f]) : d[f][i] = "IndexError"

-----------------------------------------------------------------------------
(* The device: what the modem sends back *)

\* Lines that all arrive before the timeout, with no transport fault
Device(lines) == [lines |-> lines, arrived |-> Len(lines), fault |-> FALSE]

\* A transport fault (an exception of the serial port) while the lines are read
Faulty(lines) == [lines |-> lines, arrived |-> Len(lines), fault |-> TRUE]

\* Nothing arrives before the timeout
Silent(lines) == [lines |-> lines, arrived |-> 0, fault |-> FALSE]

L_SERVING_LTE == <<"+","Q","E","N","G",":"," ","\"","s","e","r","v","i","n","g","c","e","l","l","\"",",","\"","C","O","N","N","E","C","T","\"",",","\"","L","T","E","\"",",","\"","F","D","D","\"",",","\"","0","0","1","\"",",","\"","0","1","\"",",","\"","1","A","2","B","3","C","\"",",","\"","9","9","\"",",","\"","1","3","0","0","\"",",","\"","3","\"",",","\"","1","5","\"",",","\"","5","\"",",","\"","-","9","5","\"",",","\"","-","1","0","\"",",","\"","-","6","5","\"",",","\"","1","2","\"",",","\"","7","\"",",","\"","1","0","\"">>
L_SERVING_LTE_17 == <<"+","Q","E","N","G",":"," ","\"","s","e","r","v","i","n","g","c","e","l","l","\"",",","\"","C","O","N","N","E","C","T","\"",",","\"","L","T","E","\"",",","\"","F","D","D","\"",",","\"","0","0","1","\"",",","\"","0","1","\"",",","\"","1","A","2","B","3","C","\"",",","\"","9","9","\"",",","\"","1","3","0","0","\"",",","\"","3","\"",",","\"","1","5","\"",",","\"","5","\"",",","\"","-","9","5","\"",",","\"","-","1","0","\"",",","\"","-","6","5","\"",",","\"","1","2","\"",",","\"","7","\"">>
L_SERVING_SA == <<"+","Q","E","N","G",":"," ","\"","s","e","r","v","i","n","g","c","e","l","l","\"",",","\"","N","O","C","O","N","N","\"",",","\"","N","R","5","G","-","S","A","\"",",","\"","T","D","D","\"",",","3","1","0",",","2","6","0",",","\"","2","B","3","C","4","D","\"",",","7","7",",","\"","A","1","B","2","\"",",","6","2","7","2","6","4",",","7","8",",","1","2",",","-","8","8",",","-","1","1",",","1","5",",","-","6","0",",","2","0">>
L_SERVING_NSA == <<"+","Q","E","N","G",":"," ","\"","s","e","r","v","i","n","g","c","e","l","l","\"",",","\"","N","O","C","O","N","N","\"",",","\"","N","R","5","G","-","N","S","A","\"",",","3","1","0",",","2","6","0",",","5","5",",","-","9","0",",","1","2",",","-","1","1",",","6","2","7","2","6","4",",","7","8">>
L_SERVING_WCDMA == <<"+","Q","E","N","G",":"," ","\"","s","e","r","v","i","n","g","c","e","l","l","\"",",","\"","L","I","M","S","R","V","\"",",","\"","W","C","D","M","A","\"",",","2","3","4",",","1","5",",","\"","0","0","C","8","\"",",","\"","1","A","2","B","\"",",","1","0","7","1","3",",","4","0","1",",","3",",","-","8","5",",","-","7",",","-",",","-",",","-",",","-",",","0">>
L_SERVING_SHORT == <<"+","Q","E","N","G",":"," ","\"","s","e","r","v","i","n","g","c","e","l","l","\"",",","\"","S","E","A","R","C","H","\"">>
L_SERVING_ENDC == <<"+","Q","E","N","G",":"," ","\"","s","e","r","v","i","n","g","c","e","l","l","\"",",","\"","N","O","C","O","N","N","\"">>
L_ENDC_LTE == <<"+","Q","E","N","G",":"," ","\"","L","T","E","\"",",","\"","F","D","D","\"",",","3","1","0",",","2","6","0",",","\"","1","A","2","B","3","C","\"",",","9","9",",","1","3","0","0",",","3",",","5",",","5",",","\"","A","1","B","2","\"",",","-","9","5",",","-","1","0",",","-","6","5",",","1","2",",","7",",","1","0">>
L_ENDC_NSA == <<"+","Q","E","N","G",":"," ","\"","N","R","5","G","-","N","S","A","\"",",","3","1","0",",","2","6","0",",","5","5",",","-","9","0",",","1","2",",","-","1","1",",","6","2","7","2","6","4",",","7","8",",","1","2",",","1">>

\* The first n comma-separated tokens of a line
FirstTokens(line, n) == Join(<<",">>, SubSeq(Split(line, ","), 1, n))

\* Serving-cell lines one token short of their layout's minimum, and with the
\* common prefix alone
L_SERVING_SA_16 == FirstTokens(L_SERVING_SA, 16)
L_SERVING_NSA_10 == FirstTokens(L_SERVING_NSA, 10)
L_SERVING_WCDMA_16 == FirstTokens(L_SERVING_WCDMA, 16)
L_SERVING_LTE_3 == FirstTokens(L_SERVING_LTE, 3)
L_SERVING_SA_3 == FirstTokens(L_SERVING_SA, 3)
L_SERVING_NSA_3 == FirstTokens(L_SERVING_NSA, 3)
L_SERVING_WCDMA_3 == FirstTokens(L_SERVING_WCDMA, 3)

L_CREG == <<"+","C","R","E","G",":"," ","2",",","1",",","\"","1","A","2","B","\"",",","\"","0","C","3","D","\"",",","7">>
L_CGREG == <<"+","C","G","R","E","G",":"," ","2",",","5",",","\"","1","A","2","B","\"",",","\"","0","C","3","D","\"",",","7">>
L_CEREG == <<"+","C","E","R","E","G",":"," ","2",",","1",",","\"","1","A","2","B","\"",",","\"","3","C","4","D","5","E","\"",",","7">>
L_C5GREG == <<"+","C","5","G","R","E","G",":"," ","2",",","2",",","\"","0","0","A","1","\"",",","\"","0","0","B","2","C","3","\"",",","1","1">>
L_CPIN == <<"+","C","P","I","N",":"," ","R","E","A","D","Y">>
L_COPS == <<"+","C","O","P","S",":"," ","0",",","0",",","\"","C","a","r","r","i","e","r","\"",",","7">>
L_CGATT == <<"+","C","G","A","T","T",":"," ","1">>
L_CSQ == <<"+","C","S","Q",":"," ","2","0",",","9","9">>
L_QCAINFO_PCC == <<"+","Q","C","A","I","N","F","O",":"," ","\"","P","C","C","\"",",","1","3","0","0",",","7","5">>
L_QCAINFO_SCC == <<"+","Q","C","A","I","N","F","O",":"," ","\"","S","C","C","\"",",","3","0","5","0",",","5","0">>

N_LTE_95 == <<"+","Q","E","N","G",":"," ","\"","n","e","i","g","h","b","o","u","r","c","e","l","l"," ","i","n","t","r","a","\"",",","\"","L","T","E","\"",",","1","3","0","0",",","9","9",",","-","1","0",",","-","9","5",",","-","6","5",",","1","2",",","7">>
N_LTE_NA == <<"+","Q","E","N","G",":"," ","\"","n","e","i","g","h","b","o","u","r","c","e","l","l"," ","i","n","t","e","r","\"",",","\"","L","T","E","\"",",","3","0","5","0",",","8",",","-",",","N","/","A",",","-",",","-">>
N_LTE_EMPTY == <<"+","Q","E","N","G",":"," ","\"","n","e","i","g","h","b","o","u","r","c","e","l","l"," ","i","n","t","e","r","\"",",","\"","L","T","E","\"",",","3","0","5","0",",","9",",",",","\"","\"",",",",">>
N_LTE_SHORT == <<"+","Q","E","N","G",":"," ","\"","n","e","i","g","h","b","o","u","r","c","e","l","l"," ","i","n","t","r","a","\"",",","\"","L","T","E","\"",",","1","3","0","0",",","9","9",",","-","1","0",",","-","7","0">>
N_WCDMA_101 == <<"+","Q","E","N","G",":"," ","\"","n","e","i","g","h","b","o","u","r","c","e","l","l","\"",",","\"","W","C","D","M","A","\"",",","1","0","7","1","3",",","3",",","5",",","4","0","1",",","-","1","0","1",",","-","9",",","1","2">>
N_5G_70 == <<"+","Q","E","N","G",":"," ","\"","n","e","i","g","h","b","o","u","r","c","e","l","l","\"",",","\"","N","R","5","G","\"",",","6","2","7","2","6","4",",","5","5",",","-","7","0",",","-","1","1">>
N_WCDMA_DASH == <<"+","Q","E","N","G",":"," ","\"","n","e","i","g","h","b","o","u","r","c","e","l","l","\"",",","\"","W","C","D","M","A","\"",",","1","0","7","1","3",",","3",",","5",",","4","0","2",",","-",",","-","9">>
N_UNKNOWN == <<"+","Q","E","N","G",":"," ","\"","n","e","i","g","h","b","o","u","r","c","e","l","l","\"",",","\"","G","S","M","\"",",","6","2",",","1",",","2",",","3",",","-","7","5",",","5",",","6">>
N_OTHER == <<"+","Q","E","N","G",":"," ","\"","s","e","r","v","i","n","g","c","e","l","l","\"",",","\"","N","O","C","O","N","N","\"">>

\* Every query answered in full
GoodModem ==
    [c \in Commands |->
        CASE c = AT_PROBE -> Device(<<S_OK>>)
          [] c = AT_SERVINGCELL -> Device(<<L_SERVING_LTE, S_OK>>)
          [] c = AT_CREG -> Device(<<L_CREG, <<>>, S_OK>>)
          [] c = AT_CGREG -> Device(<<L_CGREG, S_OK>>)
          [] c = AT_CEREG -> Device(<<L_CEREG, S_OK>>)
          [] c = AT_C5GREG -> Device(<<L_C5GREG, S_OK>>)
          [] c = AT_CPIN -> Device(<<L_CPIN, S_OK>>)
          [] c = AT_COPS -> Device(<<L_COPS, S_OK>>)
          [] c = AT_CGATT -> Device(<<L_CGATT, S_OK>>)
          [] c = AT_NEIGHBOURCELL -> Device(<<N_LTE_95, N_WCDMA_101, S_OK>>)
          [] c = AT_CSQ -> Device(<<L_CSQ, S_OK>>)
          [] c = AT_QCAINFO -> Device(<<L_QCAINFO_PCC, L_QCAINFO_SCC, S_OK>>)]

\* GoodModem with the answer to one command replaced
With(m, c, dev) == [m EXCEPT ![c] = dev]

-----------------------------------------------------------------------------
(* Specification Spec: the five decoders applied to one fresh record, in    *)
(* any order, for responses drawn from the cases below.                      *)

\* Bounds of the decoder inputs
MaxNeighborLines == 2

ServingCases ==
    { <<L_SERVING_LTE, S_OK>>, <<L_SERVING_LTE_17, S_OK>>, <<L_SERVING_SA, S_OK>>,
      <<L_SERVING_NSA, S_OK>>, <<L_SERVING_WCDMA, S_OK>>, <<L_SERVING_SHORT, S_OK>>,
      <<L_SERVING_ENDC, L_ENDC_LTE, L_ENDC_NSA, S_OK>>, <<S_ERROR>>,
      <<L_SERVING_SA_16, S_OK>>, <<L_SERVING_NSA_10, S_OK>>, <<L_SERVING_WCDMA_16, S_OK>>,
      <<L_SERVING_LTE_3, S_OK>>, <<L_SERVING_SA_3, S_OK>>, <<L_SERVING_NSA_3, S_OK>>,
      <<L_SERVING_WCDMA_3, S_OK>> }

\* What follows the marker of a registration line
RegRests ==
    { <<" ","2",",","0">>, <<" ","2",",","1">>, <<" ","2",",","2">>, <<" ","2",",","3">>, <<" ","2",",","4">>, <<" ","2",",","5">>, <<" ","2",",","6">>,
      <<" ","2",",","7">>, <<" ","2",",","8">>, <<" ","2",",","9">>, <<" ","2",",","1","0">>, <<" ","2",",","1","1">>, <<" ","2",",","0","1">>, <<" ","2",",","x">>,
      <<" ","2",","," ","5"," ",",","\"","1","A","2","B","\"",",","\"","3","C","4","D","5","E","\"">>, <<" ","2",",">>, <<" ","1",",","\"","1","A","2","B","\"",",","\"","3","C","4","D","5","E","\"">>,
      <<" ","2",",","1",",","\"","1","A","2","B","\"",",","\"","3","C","4","D","5","E","\"">>, <<" ","1">> }

\* Registration lines that come in pairs: long and short ones
RegPairRests == { <<" ","2",",","1",",","\"","1","A","2","B","\"",",","\"","3","C","4","D","5","E","\"">>, <<" ","2",",","5">>, <<" ","2",",","2",",","\"","0","0","A","1","\"",",","\"","0","0","B","2","C","3","\"",",","7">> }

RegMarker(c) ==
    CASE c = AT_CREG -> S_CREG [] c = AT_CGREG -> S_CGREG
      [] c = AT_CEREG -> S_CEREG [] c = AT_C5GREG -> S_C5GREG

RegQueries == {AT_CREG, AT_CGREG, AT_CEREG, AT_C5GREG}

NeighborLines ==
    { N_LTE_95, N_LTE_NA, N_LTE_EMPTY, N_LTE_SHORT, N_WCDMA_101, N_WCDMA_DASH,
      N_5G_70, N_UNKNOWN, N_OTHER }

NeighborCases ==
    UNION {[1..n -> NeighborLines] : n \in 0..MaxNeighborLines}

AuthCases ==
    { With(With(GoodModem, AT_CGATT, Device(<<<<"+","C","G","A","T","T",":"," ","0">>, S_OK>>)),
           AT_COPS, Device(<<<<"+","C","O","P","S",":"," ","0">>, S_OK>>)),
      With(With(GoodModem, AT_CPIN, Device(<<<<"+","C","M","E"," ","E","R","R","O","R",":"," ","1","0">>>>)),
           AT_COPS, Device(<<<<"+","C","O","P","S",":"," ","0",",","2",",","\"","3","1","0","2","6","0","\"">>, S_OK>>)) }

SignalCases ==
    { With(With(GoodModem, AT_CSQ, Device(<<<<"+","C","S","Q",":"," ","9","9">>, S_OK>>)),
           AT_QCAINFO, Device(<<S_OK>>)),
      With(GoodModem, AT_CSQ, Device(<<<<"+","C","S","Q",":"," "," ","3","1"," ",","," ","0"," ">>, S_OK>>)) }

HarnessModems ==
    {With(GoodModem, AT_SERVINGCELL, Device(lines)) : lines \in ServingCases}
    \cup {With(GoodModem, c, Device(<<RegMarker(c) \o rest, S_OK>>)) :
             c \in RegQueries, rest \in RegRests}
    \cup {With(GoodModem, c,
                 Device(<<RegMarker(c) \o first, RegMarker(c) \o second, S_OK>>)) :
             c \in RegQueries, first \in RegPairRests, second \in RegPairRests}
    \cup {With(GoodModem, AT_NEIGHBOURCELL, Device(lines \o <<S_OK>>)) :
             lines \in NeighborCases}
    \cup AuthCases \cup SignalCases

NoExc == [type |-> "none", at |-> "none"]

\* DataLogger.__init__, and the monitor not started
LoggerIdle ==
    /\ running = FALSE
    /\ exc = NoExc
    /\ csv_file = "none"
    /\ is_initialized = FALSE
    /\ csv_buf = <<>>
    /\ disk = <<>>
    /\ cycles = 0
    /\ result = "none"
    /\ response_lines = <<>>

Init ==
    /\ modem \in HarnessModems
    /\ serial_open = TRUE
    /\ data = FreshData(0)
    /\ done = {}
    /\ pc = "decode"
    /\ LoggerIdle

Apply(name) ==
    /\ pc = "decode"
    /\ name \notin done
    /\ data' = Decode(name, data)
    /\ done' = done \cup {name}
    /\ UNCHANGED <<response_lines, modem, serial_open, pc, running, csv_file, is_initialized, csv_buf,
                   disk, cycles, exc, result>>

DoServingCell == Apply("serving_cell")
DoNasStates == Apply("nas_states")
DoAuthInfo == Apply("auth_info")
DoNeighborCells == Apply("neighbor_cells")
DoSignalMetrics == Apply("signal_metrics")

Next == DoServingCell \/ DoNasStates \/ DoAuthInfo \/ DoNeighborCells \/ DoSignalMetrics

Spec == Init /\ [][Next]_vars

-----------------------------------------------------------------------------
(* DataLogger *)

\* The header row that csv.DictWriter.writeheader writes
Header == [kind |-> "header", cells |-> FieldNames]

\* The row that csv.DictWriter.writerow writes for asdict(d): the value of
\* each field name of the writer, in the writer's order
Row(d) ==
    [kind |-> "row",
     cells |-> [i \in 1..Len(FieldNames) |->
                   IF FieldNames[i] \in DOMAIN d THEN d[FieldNames[i]] ELSE <<>>]]

\* The logger's state as one value
Logger ==
    [csv_file |-> csv_file, is_initialized |-> is_initialized,
     csv_buf |-> csv_buf, disk |-> disk]

SetLogger(l) ==
    /\ csv_file' = l.csv_file
    /\ is_initialized' = l.is_initialized
    /\ csv_buf' = l.csv_buf
    /\ disk' = l.disk

\* A bug to test against: the file is opened for appending.
InitializeAppends(l, openOk) ==
    IF openOk
    THEN [csv_file |-> "open", is_initialized |-> TRUE, csv_buf |-> <<>>,
          disk |-> l.disk \o <<Header>>]
    ELSE [l EXCEPT !.is_initialized = FALSE]

\* initialize(): open(filename, 'w') truncates the file, then the header is
\* written and flushed; when open raises, only is_initialized is set (False).
\* Every write of the logger is followed by a flush, so the handle that is
\* replaced holds nothing unwritten.
Initialize(l, openOk) ==
    IF openOk
    THEN [csv_file |-> "open", is_initialized |-> TRUE, csv_buf |-> <<>>,
          disk |-> <<Header>>]
    ELSE [l EXCEPT !.is_initialized = FALSE]

\* csv_writer.writerow(asdict(data)): into the buffer of the open file; on a
\* closed file it raises ValueError, which log_data catches
WriteRow(l, d) ==
    IF l.csv_file = "open" THEN [l EXCEPT !.csv_buf = Append(@, Row(d))] ELSE l

\* csv_file.flush()
Flush(l) ==
    IF l.csv_file = "open" THEN [l EXCEPT !.disk = @ \o l.csv_buf, !.csv_buf = <<>>]
    ELSE l

\* The first half of log_data: initialize() when not initialized, then the row
\* is written when the logger is initialized
LogWrite(l, d, openOk) ==
    LET l1 == IF ~l.is_initialized THEN Initialize(l, openOk) ELSE l
    IN  IF l1.is_initialized /\ l1.csv_file # "none" THEN WriteRow(l1, d) ELSE l1

\* log_data(data)
LogData(l, d, openOk) == Flush(LogWrite(l, d, openOk))

\* close(): closing flushes what the buffer holds
Close(l) ==
    IF l.csv_file # "none" THEN [Flush(l) EXCEPT !.csv_file = "closed"] ELSE l

-----------------------------------------------------------------------------
(* Specification SpecLogger: any sequence of initialize() and log_data()    *)
(* calls on one DataLogger, each open succeeding or failing.                 *)

\* Bound: the log_data calls of one run
MaxLogCalls == 4

InitLogger ==
    /\ modem = GoodModem
    /\ serial_open = TRUE
    /\ data = NetworkData
    /\ done = {}
    /\ pc = "logger"
    /\ LoggerIdle

CallInitialize ==
    /\ pc = "logger"
    /\ \E openOk \in BOOLEAN : SetLogger(Initialize(Logger, openOk))
    /\ UNCHANGED <<response_lines, modem, serial_open, data, done, pc, running, cycles, exc, result>>

CallLogData ==
    /\ pc = "logger"
    /\ cycles < MaxLogCalls
    /\ \E d \in {FreshData(cycles), ExtractAllData(cycles)}, openOk \in BOOLEAN :
          /\ data' = d
          /\ SetLogger(LogData(Logger, d, openOk))
    /\ cycles' = cycles + 1
    /\ UNCHANGED <<response_lines, modem, serial_open, done, pc, running, exc, result>>

NextLogger == CallInitialize \/ CallLogData

SpecLogger == InitLogger /\ [][NextLogger]_vars

-----------------------------------------------------------------------------
(* Specification SpecMonitor: NetworkMonitor.start(), statement by           *)
(* statement, with a KeyboardInterrupt possible at every point of the loop.  *)

\* Bound: the sampling cycles of one run
MaxCycles == 2

MonitorModems ==
    { GoodModem,
      With(GoodModem, AT_PROBE, Silent(<<S_OK>>)),
      With(GoodModem, AT_PROBE, Device(<<S_ERROR>>)),
      With(With(GoodModem, AT_SERVINGCELL, Faulty(<<L_SERVING_LTE, S_OK>>)),
           AT_NEIGHBOURCELL, Silent(<<N_LTE_95, S_OK>>)) }

\* The statements of the try block of start()
LoopPcs == {"extract", "log", "flush", "display", "sleep"}

InitMonitor ==
    /\ modem \in MonitorModems
    /\ serial_open = FALSE
    /\ data = NetworkData
    /\ done = {}
    /\ pc = "start"
    /\ LoggerIdle

\* connect(), and start() returning False when it fails: serial.Serial raises
\* (portOk false), or the port opens and the AT probe is not answered with OK
Connect ==
    /\ pc = "start"
    /\ \E portOk \in BOOLEAN :
          IF portOk /\ CheckOk(SendCommandOn(TRUE, AT_PROBE))
          THEN /\ serial_open' = TRUE
               /\ pc' = "initialize"
               /\ result' = result
          ELSE /\ serial_open' = portOk
               /\ pc' = "returned"
               /\ result' = "False"
    /\ UNCHANGED <<response_lines, modem, data, done, running, csv_file, is_initialized, csv_buf, disk,
                   cycles, exc>>

\* self.logger.initialize()
InitializeLogger ==
    /\ pc = "initialize"
    /\ \E openOk \in BOOLEAN : SetLogger(Initialize(Logger, openOk))
    /\ pc' = "configure"
    /\ UNCHANGED <<response_lines, modem, serial_open, data, done, running, cycles, exc, result>>

\* _configure_modem(), whose responses are ignored, and self.running = True
ConfigureModem ==
    /\ pc = "configure"
    /\ running' = TRUE
    /\ pc' = "extract"
    /\ UNCHANGED <<response_lines, modem, serial_open, data, done, csv_file, is_initialized, csv_buf,
                   disk, cycles, exc, result>>

\* while self.running: data = self.extractor.extract_all_data()
Extract ==
    /\ pc = "extract"
    /\ running
    /\ cycles < MaxCycles
    /\ cycles' = cycles + 1
    /\ LET d == ExtractAllData(cycles)
       IN  IF Raised(d)
           THEN /\ exc' = [type |-> "Exception", at |-> pc]
                /\ pc' = "stop"
                /\ data' = data
           ELSE /\ data' = d
                /\ pc' = "log"
                /\ exc' = exc
    /\ UNCHANGED <<response_lines, modem, serial_open, done, running, csv_file, is_initialized, csv_buf,
                   disk, result>>

\* self.logger.log_data(data), up to the row written
LogRow ==
    /\ pc = "log"
    /\ \E openOk \in BOOLEAN :
          LET l == LogWrite(Logger, data, openOk)
          IN  /\ SetLogger(l)
              /\ pc' = IF l.is_initialized /\ l.csv_file # "none" THEN "flush" ELSE "display"
    /\ UNCHANGED <<response_lines, modem, serial_open, data, done, running, cycles, exc, result>>

\* self.csv_file.flush() of log_data
LogFlush ==
    /\ pc = "flush"
    /\ SetLogger(Flush(Logger))
    /\ pc' = "display"
    /\ UNCHANGED <<response_lines, modem, serial_open, data, done, running, cycles, exc, result>>

\* _display_summary(data): the prints succeed, or one raises (standard output
\* closed) and the except Exception clause of start() logs it
Display ==
    /\ pc = "display"
    /\ \E printOk \in BOOLEAN :
          IF printOk THEN pc' = "sleep" /\ exc' = exc
          ELSE pc' = "stop" /\ exc' = [type |-> "Exception", at |-> pc]
    /\ UNCHANGED <<response_lines, modem, serial_open, data, done, running, csv_file, is_initialized,
                   csv_buf, disk, cycles, result>>

\* time.sleep(self.interval)
Sleep ==
    /\ pc = "sleep"
    /\ pc' = "extract"
    /\ UNCHANGED <<response_lines, modem, serial_open, data, done, running, csv_file, is_initialized,
                   csv_buf, disk, cycles, exc, result>>

\* KeyboardInterrupt raised in the try block: the statement at pc is
\* abandoned and the except KeyboardInterrupt clause runs
Interrupt ==
    /\ pc \in LoopPcs
    /\ exc' = [type |-> "KeyboardInterrupt", at |-> pc]
    /\ pc' = "stop"
    /\ UNCHANGED <<response_lines, modem, serial_open, data, done, running, csv_file, is_initialized,
                   csv_buf, disk, cycles, result>>

\* A bug to test against: stop() does not close the logger.
StopLeavesSinkOpen ==
    /\ pc = "stop"
    /\ running' = FALSE
    /\ serial_open' = FALSE
    /\ result' = "True"
    /\ pc' = "returned"
    /\ UNCHANGED <<response_lines, modem, data, done, csv_file, is_initialized, csv_buf, disk, cycles, exc>>

\* finally: self.stop(), then return True.  stop(): running = False,
\* logger.close(), at_interface.disconnect()
Stop ==
    /\ pc = "stop"
    /\ running' = FALSE
    /\ SetLogger(Close(Logger))
    /\ serial_open' = FALSE
    /\ result' = "True"
    /\ pc' = "returned"
    /\ UNCHANGED <<response_lines, modem, data, done, cycles, exc>>

NextMonitor ==
    \/ Connect \/ InitializeLogger \/ ConfigureModem \/ Extract \/ LogRow \/ LogFlush
    \/ Display \/ Sleep \/ Interrupt \/ Stop

SpecMonitor == InitMonitor /\ [][NextMonitor]_vars

-----------------------------------------------------------------------------
(* Specification SpecCycle: one sampling cycle against a modem on which any *)
(* subset of the 11 queries gets an empty answer and a few get a malformed  *)
(* one.                                                                      *)

\* Bound: the queries of one cycle answered with a malformed response
MaxMalformed == 1

\* The line cut to its first half: too few tokens
CutShort(line) == SubSeq(line, 1, Len(line) \div 2)

\* Every digit replaced by a letter: non-numeric values
NonNumeric(line) == [i \in 1..Len(line) |-> IF line[i] \in Range(DigitChars) THEN "x" ELSE line[i]]

\* An unsolicited line of the modem
L_URC == <<"+","Q","I","N","D",":"," ","\"","c","s","q","\"",",","2","0",",","9","9">>

MalformedKinds == {"short", "nonnumeric", "duplicate", "extra"}

\* The lines of a response before its final OK
Payload(lines) == SubSeq(lines, 1, Len(lines) - 1)

Malformed(kind, lines) ==
    LET payload == Payload(lines)
    IN  CASE kind = "short" ->
               [i \in 1..Len(payload) |-> CutShort(payload[i])] \o <<S_OK>>
          [] kind = "nonnumeric" ->
               [i \in 1..Len(payload) |-> NonNumeric(payload[i])] \o <<S_OK>>
          [] kind = "duplicate" -> payload \o payload \o <<S_OK>>
          [] kind = "extra" -> <<L_URC>> \o payload \o <<L_URC, S_OK>>

QuerySet == Range(Queries)

\* GoodModem with the queries of failed unanswered (a transport fault, or
\* nothing before the timeout) and those of bad answered with malformed lines
CycleModem(failed, timeout, bad, kind) ==
    [c \in Commands |->
        IF c \in failed
        THEN IF timeout THEN Silent(GoodModem[c].lines) ELSE Faulty(GoodModem[c].lines)
        ELSE IF c \in bad THEN Device(Malformed(kind, GoodModem[c].lines))
        ELSE GoodModem[c]]

\* Every subset of the queries failing by a transport fault; one query or all
\* of them timing out; up to MaxMalformed queries malformed, alone or next to
\* one query that times out
CycleModems ==
    {CycleModem(failed, FALSE, {}, "short") : failed \in SUBSET QuerySet}
    \cup {CycleModem(failed, TRUE, {}, "short") :
            failed \in {{q} : q \in QuerySet} \cup {QuerySet}}
    \cup UNION {
          {CycleModem(failed, timeout, bad, kind) :
              failed \in {{}} \cup {{q} : q \in QuerySet \ bad},
              timeout \in {TRUE}}
          : bad \in {s \in SUBSET QuerySet : s # {} /\ Cardinality(s) <= MaxMalformed},
            kind \in MalformedKinds}

InitCycle ==
    /\ \/ modem \in CycleModems /\ serial_open = TRUE
       \/ modem = GoodModem /\ serial_open = FALSE
    /\ data = NetworkData
    /\ done = {}
    /\ pc = "cycle"
    /\ LoggerIdle

\* One call of extract_all_data()
ExtractCycle ==
    /\ pc = "cycle"
    /\ LET d == ExtractAllData(cycles)
       IN  IF Raised(d)
           THEN /\ exc' = [type |-> "Exception", at |-> pc]
                /\ data' = data
                /\ pc' = "raised"
           ELSE /\ data' = d
                /\ exc' = exc
                /\ pc' = "extracted"
    /\ cycles' = cycles + 1
    /\ UNCHANGED <<response_lines, modem, serial_open, done, running, csv_file, is_initialized, csv_buf,
                   disk, result>>

NextCycle == ExtractCycle

SpecCycle == InitCycle /\ [][NextCycle]_vars

-----------------------------------------------------------------------------
(* Specification SpecCommand: one send_command call, for every short         *)
(* sequence of lines the port can deliver, whole or cut by the timeout or   *)
(* by a transport fault, on an open or a closed port.                       *)

\* Bound: the lines the device holds for one command
MaxResponseLines == 3

CRLF == <<"\r", "\n">>

\* What readline() can deliver: terminators, a blank line, a data line, and a
\* line that holds OK without being the terminator
PortLines ==
    { S_OK \o CRLF, S_ERROR \o CRLF, <<"+","C","M","E"," ","E","R","R","O","R",":"," ","1","0">> \o CRLF, CRLF,
      L_CSQ \o CRLF, <<"L","O","O","K">> \o CRLF }

PortDevices ==
    UNION { UNION {
              {[lines |-> lines, arrived |-> arrived, fault |-> fault] :
                  arrived \in 0..n, fault \in BOOLEAN}
              : lines \in [1..n -> PortLines]}
            : n \in 0..MaxResponseLines}

InitCommand ==
    /\ \E dev \in PortDevices : modem = With(GoodModem, AT_PROBE, dev)
    /\ \/ serial_open = TRUE
       \/ serial_open = FALSE /\ ~modem[AT_PROBE].fault
    /\ data = NetworkData
    /\ done = {}
    /\ pc = "command"
    /\ LoggerIdle

\* send_command("AT"): what it returns is its response_lines
SendAt ==
    /\ pc = "command"
    /\ response_lines' = SendCommandOn(serial_open, AT_PROBE)
    /\ pc' = "returned"
    /\ UNCHANGED <<modem, serial_open, data, done, running, csv_file, is_initialized,
                   csv_buf, disk, cycles, exc, result>>

NextCommand == SendAt

SpecCommand == InitCommand /\ [][NextCommand]_vars

-----------------------------------------------------------------------------
(* Claims about the decoders, checked under Spec *)

AllDecoders == Range(Decoders)

\* C1: for the serving-cell response +QENG: "servingcell","CONNECT","LTE",
\* "FDD","001",... the record decoded by _extract_serving_cell on a fresh
\* NetworkData has rrc_state CONNECT, technology LTE, mcc 001, pci 99,
\* rsrp -95 and sinr 12.
C1_ServingCellExample ==
    (modem[AT_SERVINGCELL].lines = <<L_SERVING_LTE, S_OK>> /\ done = {"serving_cell"})
    => /\ data.rrc_state = <<"C","O","N","N","E","C","T">>
       /\ data.technology = <<"L","T","E">>
       /\ data.mcc = <<"0","0","1">>
       /\ data.pci = <<"9","9">>
       /\ data.rsrp = <<"-","9","5">>
       /\ data.sinr = <<"1","2">>

\* Reached: the line is decoded, and the duplex mode FDD stands where the mcc
\* was expected
C1_Witness ==
    /\ modem[AT_SERVINGCELL].lines = <<L_SERVING_LTE, S_OK>>
    /\ done = {"serving_cell"}
    /\ data.rrc_state = <<"C","O","N","N","E","C","T">>
    /\ data.mcc = <<"F","D","D">>
    /\ data.mnc = <<"0","0","1">>
    /\ data.pci = <<"1","A","2","B","3","C">>

C2_OriginalLine == <<S_CEREG \o <<" ","1",",","\"","1","A","2","B","\"",",","\"","3","C","4","D","5","E","\"">>, S_OK>>
C2_LineWithMode == <<S_CEREG \o <<" ","2",",","1",",","\"","1","A","2","B","\"",",","\"","3","C","4","D","5","E","\"">>, S_OK>>

\* C2 as claimed: for the EPS registration response +CEREG: 1,"1A2B","3C4D5E"
\* the record decoded by _extract_nas_states on a fresh NetworkData has
\* eps_state REGISTERED_HOME, eps_tac 1A2B and eps_ci 3C4D5E.
C2_CeregExample ==
    (modem[AT_CEREG].lines = C2_OriginalLine /\ done = {"nas_states"})
    => /\ data.eps_state = <<"R","E","G","I","S","T","E","R","E","D","_","H","O","M","E">>
       /\ data.eps_tac = <<"1","A","2","B">>
       /\ data.eps_ci = <<"3","C","4","D","5","E">>

\* C2 amended: the state is the second comma-separated token, so it is the
\* response +CEREG: 2,1,"1A2B","3C4D5E" (mode, state, tac, ci) that decodes to
\* eps_state REGISTERED_HOME, eps_tac 1A2B and eps_ci 3C4D5E; the three-token
\* line +CEREG: 1,"1A2B","3C4D5E" decodes to eps_state UNKNOWN_"1A2B" and leaves
\* eps_tac and eps_ci empty.
C2_CeregWithMode ==
    /\ (modem[AT_CEREG].lines = C2_LineWithMode /\ done = {"nas_states"})
       => /\ data.eps_state = <<"R","E","G","I","S","T","E","R","E","D","_","H","O","M","E">>
          /\ data.eps_tac = <<"1","A","2","B">>
          /\ data.eps_ci = <<"3","C","4","D","5","E">>
    /\ (modem[AT_CEREG].lines = C2_OriginalLine /\ done = {"nas_states"})
       => /\ data.eps_state = <<"U","N","K","N","O","W","N","_","\"","1","A","2","B","\"">>
          /\ data.eps_tac = <<>>
          /\ data.eps_ci = <<>>

C2_Witness ==
    /\ modem[AT_CEREG].lines = C2_LineWithMode
    /\ done = {"nas_states"}
    /\ data.eps_state = <<"R","E","G","I","S","T","E","R","E","D","_","H","O","M","E">>
    /\ data.eps_ci = <<"3","C","4","D","5","E">>

\* The table of the claim: a code token and the name it must decode to
C6_Table ==
    << <<<<"0">>, <<"N","O","T","_","R","E","G","I","S","T","E","R","E","D">>>>,
       <<<<"1">>, <<"R","E","G","I","S","T","E","R","E","D","_","H","O","M","E">>>>,
       <<<<"2">>, <<"S","E","A","R","C","H","I","N","G">>>>,
       <<<<"3">>, <<"D","E","N","I","E","D">>>>,
       <<<<"4">>, <<"U","N","K","N","O","W","N">>>>,
       <<<<"5">>, <<"R","E","G","I","S","T","E","R","E","D","_","R","O","A","M","I","N","G">>>>,
       <<<<"6">>, <<"R","E","G","I","S","T","E","R","E","D","_","S","M","S","_","O","N","L","Y","_","H","O","M","E">>>>,
       <<<<"7">>, <<"R","E","G","I","S","T","E","R","E","D","_","S","M","S","_","O","N","L","Y","_","R","O","A","M","I","N","G">>>>,
       <<<<"8">>, <<"E","M","E","R","G","E","N","C","Y","_","O","N","L","Y">>>>,
       <<<<"9">>, <<"R","E","G","I","S","T","E","R","E","D","_","C","S","F","B","_","N","O","T","_","P","R","E","F","E","R","R","E","D","_","H","O","M","E">>>>,
       <<<<"1","0">>, <<"R","E","G","I","S","T","E","R","E","D","_","C","S","F","B","_","N","O","T","_","P","R","E","F","E","R","R","E","D","_","R","O","A","M","I","N","G">>>>,
       <<<<"1","1">>, <<"U","N","K","N","O","W","N","_","1","1">>>>,
       <<<<"0","1">>, <<"U","N","K","N","O","W","N","_","0","1">>>>,
       <<<<"x">>, <<"U","N","K","N","O","W","N","_","x">>>>,
       <<<<>>, <<"U","N","K","N","O","W","N","_">>>> >>

C6_StateField(c) ==
    CASE c = AT_CREG -> "cs_state" [] c = AT_CGREG -> "ps_state"
      [] c = AT_CEREG -> "eps_state" [] c = AT_C5GREG -> "nr5g_state"

\* C6: each code 0..10 decodes to its own fixed name and every other token c
\* to UNKNOWN_c, without raising, and each of the four registration decoders
\* (CREG, CGREG, CEREG, C5GREG) stores its state through this mapping.
C6_RegStateTable ==
    "nas_states" \in done =>
        /\ ~Raised(data)
        /\ \A c \in RegQueries : \A k \in 1..Len(C6_Table) :
              modem[c].lines = <<RegMarker(c) \o <<" ","2",",">> \o C6_Table[k][1], S_OK>>
              => data[C6_StateField(c)] = C6_Table[k][2]

C6_Witness ==
    /\ "nas_states" \in done
    /\ modem[AT_C5GREG].lines = <<S_C5GREG \o <<" ","2",",","1","0">>, S_OK>>
    /\ data.nr5g_state = <<"R","E","G","I","S","T","E","R","E","D","_","C","S","F","B","_","N","O","T","_","P","R","E","F","E","R","R","E","D","_","R","O","A","M","I","N","G">>
    /\ data.cs_state = <<"R","E","G","I","S","T","E","R","E","D","_","H","O","M","E">>

\* The neighbor-cell lines of the query's response (the terminator left out)
C7_Lines == SelectSeq(modem[AT_NEIGHBOURCELL].lines, LAMBDA l : l # S_OK)

\* The integer strengths among the entries the lines yield: -95 is the rsrp of
\* the LTE entry, -101 the rscp of the WCDMA entry, -70 the rsrp of the 5G
\* entry; the other lines yield no entry, or an entry whose strength is N/A,
\* empty or not an integer.
C7_Strengths ==
    (IF \E i \in 1..Len(C7_Lines) : C7_Lines[i] = N_LTE_95 THEN {-95} ELSE {})
    \cup (IF \E i \in 1..Len(C7_Lines) : C7_Lines[i] = N_WCDMA_101 THEN {-101} ELSE {})
    \cup (IF \E i \in 1..Len(C7_Lines) : C7_Lines[i] = N_5G_70 THEN {-70} ELSE {})

C7_Text(v) ==
    CASE v = -95 -> <<"-","9","5">> [] v = -101 -> <<"-","1","0","1">> [] v = -70 -> <<"-","7","0">>

\* C7: best_neighbor_rsrp is the decimal text of the maximum integer strength
\* (rsrp, or rscp for an entry without rsrp) over the parsed entries, entries
\* without an integer strength excluded; with no integer strength it stays "".
C7_BestNeighbor ==
    "neighbor_cells" \in done =>
        data.best_neighbor_rsrp =
            IF C7_Strengths = {} THEN <<>>
            ELSE C7_Text(CHOOSE m \in C7_Strengths : \A v \in C7_Strengths : v <= m)

C7_Witness ==
    /\ "neighbor_cells" \in done
    /\ C7_Lines = <<N_LTE_NA, N_WCDMA_101>>
    /\ data.best_neighbor_rsrp = <<"-","1","0","1">>

C7_WitnessNone ==
    /\ "neighbor_cells" \in done
    /\ C7_Lines = <<N_LTE_NA, N_WCDMA_DASH>>
    /\ data.neighbor_count = 2
    /\ data.best_neighbor_rsrp = <<>>

\* The lines that yield an entry: a marker line classified LTE, WCDMA or 5G
\* with enough tokens
C8_EntryLines == {N_LTE_95, N_LTE_NA, N_LTE_EMPTY, N_WCDMA_101, N_WCDMA_DASH, N_5G_70}

\* The objects of the JSON text
C8_JsonEntries ==
    Cardinality({i \in 1..Len(data.neighbor_cells_json) :
                    data.neighbor_cells_json[i].t = "{"})

\* C8: neighbor_count is the number of entries serialized in
\* neighbor_cells_json, one per marker line classified LTE, WCDMA or 5G with
\* enough tokens; with no neighbor-cell line neighbor_count is 0 and
\* best_neighbor_rsrp and neighbor_cells_json are empty.
C8_NeighborCount ==
    "neighbor_cells" \in done =>
        /\ data.neighbor_count = C8_JsonEntries
        /\ data.neighbor_count =
              Cardinality({i \in 1..Len(C7_Lines) : C7_Lines[i] \in C8_EntryLines})
        /\ (\A i \in 1..Len(C7_Lines) : C7_Lines[i] = N_OTHER)
              => /\ data.neighbor_count = 0
                 /\ data.best_neighbor_rsrp = <<>>
                 /\ data.neighbor_cells_json = <<>>

C8_Witness ==
    /\ "neighbor_cells" \in done
    /\ C7_Lines = <<N_LTE_SHORT, N_5G_70>>
    /\ data.neighbor_count = 1
    /\ C8_JsonEntries = 1

C8_WitnessNone ==
    /\ "neighbor_cells" \in done
    /\ C7_Lines = <<N_OTHER>>
    /\ data.neighbor_count = 0

\* The fields each decoder writes, by the claim
C9_Writes ==
    [name \in AllDecoders |->
        CASE name = "serving_cell" ->
               {"rrc_state", "cell_type", "technology", "mcc", "mnc", "cell_id", "pci",
                "tac_lac", "earfcn_arfcn", "band", "bandwidth", "scs", "rsrp", "rsrq",
                "rssi", "sinr", "cqi", "tx_power", "serving_cell_count"}
          [] name = "nas_states" ->
               {"cs_state", "cs_lac", "cs_ci", "ps_state", "ps_lac", "ps_ci",
                "eps_state", "eps_tac", "eps_ci", "nr5g_state", "nr5g_tac", "nr5g_ci"}
          [] name = "auth_info" ->
               {"sim_state", "operator", "operator_mcc_mnc", "attach_state"}
          [] name = "neighbor_cells" ->
               {"neighbor_count", "best_neighbor_rsrp", "neighbor_cells_json"}
          [] name = "signal_metrics" -> {"csq_rssi", "csq_ber", "ca_info"}]

\* C9: the five decoders write disjoint sets of fields and read none of each
\* other's, so applying them to a fresh record in any order gives the record
\* of the fixed order of extract_all_data.
C9_DecodersCommute ==
    /\ \A a, b \in AllDecoders : a # b => C9_Writes[a] \cap C9_Writes[b] = {}
    /\ \A name \in AllDecoders \ done :
          \A f \in C9_Writes[name] : data[f] = NetworkData[f]
    /\ done = AllDecoders => data = ExtractAllData(0)

\* signal_metrics applied first, serving_cell not yet: an order other than
\* that of extract_all_data
C9_Witness ==
    /\ done = {"signal_metrics", "neighbor_cells"}
    /\ data.csq_rssi = <<"2","0">>
    /\ data.neighbor_count = 2
    /\ data.rrc_state = <<>>

-----------------------------------------------------------------------------
(* Claims about one sampling cycle (SpecCycle) *)

\* The fields each query's decoder writes
C3_Owned(q) ==
    CASE q = AT_CREG -> {"cs_state", "cs_lac", "cs_ci"}
      [] q = AT_CGREG -> {"ps_state", "ps_lac", "ps_ci"}
      [] q = AT_CEREG -> {"eps_state", "eps_tac", "eps_ci"}
      [] q = AT_C5GREG -> {"nr5g_state", "nr5g_tac", "nr5g_ci"}
      [] q = AT_CPIN -> {"sim_state"}
      [] q = AT_COPS -> {"operator", "operator_mcc_mnc"}
      [] q = AT_CGATT -> {"attach_state"}
      [] q = AT_NEIGHBOURCELL -> {"neighbor_count", "best_neighbor_rsrp", "neighbor_cells_json"}
      [] q = AT_CSQ -> {"csq_rssi", "csq_ber"}
      [] q = AT_QCAINFO -> {"ca_info"}
      [] q = AT_SERVINGCELL ->
           {"rrc_state", "cell_type", "technology", "mcc", "mnc", "cell_id", "pci",
            "tac_lac", "earfcn_arfcn", "band", "bandwidth", "scs", "rsrp", "rsrq",
            "rssi", "sinr", "cqi", "tx_power", "serving_cell_count"}

C3_GoodCells ==
    << << <<K_tech, S_LTE>>, <<<<"e","a","r","f","c","n">>, <<"1","3","0","0">>>>, <<<<"p","c","i">>, <<"9","9">>>>,
          <<<<"r","s","r","q">>, <<"-","1","0">>>>, <<K_rsrp, <<"-","9","5">>>>, <<<<"r","s","s","i">>, <<"-","6","5">>>>,
          <<<<"s","i","n","r">>, <<"1","2">>>>, <<<<"s","r","x","l","e","v">>, <<"7">>>> >>,
       << <<K_tech, S_WCDMA>>, <<<<"u","a","r","f","c","n">>, <<"1","0","7","1","3">>>>, <<<<"p","s","c">>, <<"4","0","1">>>>,
          <<K_rscp, <<"-","1","0","1">>>>, <<<<"e","c","i","o">>, <<"-","9">>>>, <<<<"s","r","x","l","e","v">>, <<"1","2">>>> >> >>

\* What the program decodes from the answers of GoodModem
C3_GoodRecord ==
    [NetworkData EXCEPT
        !.rrc_state = <<"C","O","N","N","E","C","T">>, !.cell_type = <<"s","e","r","v","i","n","g">>, !.technology = <<"L","T","E">>,
        !.mcc = <<"F","D","D">>, !.mnc = <<"0","0","1">>, !.cell_id = <<"0","1">>, !.pci = <<"1","A","2","B","3","C">>,
        !.tac_lac = <<"5">>, !.earfcn_arfcn = <<"9","9">>, !.band = <<"1","3","0","0">>,
        !.bandwidth = <<"3">>, !.rsrp = <<"-","9","5">>, !.rsrq = <<"-","1","0">>, !.rssi = <<"-","6","5">>,
        !.sinr = <<"1","2">>, !.cqi = <<"7">>, !.tx_power = <<"1","0">>,
        !.cs_state = <<"R","E","G","I","S","T","E","R","E","D","_","H","O","M","E">>, !.cs_lac = <<"1","A","2","B">>, !.cs_ci = <<"0","C","3","D">>,
        !.ps_state = <<"R","E","G","I","S","T","E","R","E","D","_","R","O","A","M","I","N","G">>, !.ps_lac = <<"1","A","2","B">>, !.ps_ci = <<"0","C","3","D">>,
        !.eps_state = <<"R","E","G","I","S","T","E","R","E","D","_","H","O","M","E">>, !.eps_tac = <<"1","A","2","B">>, !.eps_ci = <<"3","C","4","D","5","E">>,
        !.nr5g_state = <<"S","E","A","R","C","H","I","N","G">>, !.nr5g_tac = <<"0","0","A","1">>, !.nr5g_ci = <<"0","0","B","2","C","3">>,
        !.sim_state = <<"R","E","A","D","Y">>, !.operator = <<"C","a","r","r","i","e","r">>, !.operator_mcc_mnc = <<"7">>,
        !.attach_state = <<"A","T","T","A","C","H","E","D">>,
        !.neighbor_count = 2, !.best_neighbor_rsrp = <<"-","9","5">>,
        !.neighbor_cells_json = JsonDumps(C3_GoodCells),
        !.csq_rssi = <<"2","0">>, !.csq_ber = <<"9","9">>,
        !.ca_info = <<"\"","P","C","C","\"",",","1","3","0","0",",","7","5",";"," ","\"","S","C","C","\"",",","3","0","5","0",",","5","0">>]

\* The query got no answer: the port is closed, the transport failed, or
\* nothing arrived before the timeout
C3_Empty(q) == ~serial_open \/ modem[q].fault \/ modem[q].arrived = 0

C3_Good(q) == ~C3_Empty(q) /\ modem[q] = GoodModem[q]

C3_MalformedQuery(q) == ~C3_Empty(q) /\ modem[q] # GoodModem[q]

C3_HoldsDefaults(q) == \A f \in C3_Owned(q) : data[f] = NetworkData[f]

C3_Populated(q) == \A f \in C3_Owned(q) : data[f] = C3_GoodRecord[f]

\* The cycle returned one record
C3_OneRecord ==
    /\ pc # "raised"
    /\ exc = NoExc
    /\ DOMAIN data = Range(FieldNames)
    /\ data.timestamp = Timestamp(0)

-----------------------------------------------------------------------------
(* Claims about NetworkMonitor.start() (SpecMonitor) *)

\* C4 as stated: when connect() fails or the sink cannot be created at
\* startup, start() reports a failed start and no sampling cycle runs.  So a
\* failed start has run no cycle, no cycle runs while the sink has not been
\* created, and a start() that returns without a sink returns False.
C4_FailedStartRunsNoCycle ==
    /\ result = "False" => cycles = 0
    /\ csv_file = "none" => cycles = 0
    /\ (pc = "returned" /\ csv_file = "none") => result = "False"

\* Reached: the sink was never created, two cycles ran and start() returned True
C4_Witness ==
    /\ pc = "returned"
    /\ csv_file = "none"
    /\ ~is_initialized
    /\ cycles = 2
    /\ result = "True"

\* The data rows of the sink file
DataRows(file) == SelectSeq(file, LAMBDA r : r.kind = "row")

\* A whole row of one of the cycles run so far
CompleteRow(r) ==
    /\ r.kind = "row"
    /\ Len(r.cells) = Len(FieldNames)
    /\ \E k \in 0..(cycles - 1) : r.cells[1] = Timestamp(k)

\* C5: when KeyboardInterrupt arrives at any point of the polling loop, then
\* when start() has returned the sink is closed with nothing left unwritten,
\* the serial channel is disconnected, every row of the file is the whole row
\* of a completed cycle, and a cycle interrupted before its row was written
\* has no row.
C5_InterruptReleases ==
    (pc = "returned" /\ exc.type = "KeyboardInterrupt") =>
        /\ exc.at \in LoopPcs
        /\ csv_file # "open"
        /\ csv_buf = <<>>
        /\ ~serial_open
        /\ ~running
        /\ result = "True"
        /\ \A i \in 1..Len(disk) :
              IF i = 1 THEN disk[i] = Header
              ELSE CompleteRow(disk[i])
        /\ (exc.at # "log" /\ Len(disk) >= 2) => disk[Len(disk)] = Row(data)
        /\ Len(DataRows(disk)) <= (IF exc.at = "log" THEN cycles - 1 ELSE cycles)
        /\ exc.at = "log" => \A i \in 2..Len(disk) : disk[i] # Row(data)

\* Reached: interrupted while the second cycle was being logged
C5_Witness ==
    /\ pc = "returned"
    /\ exc = [type |-> "KeyboardInterrupt", at |-> "log"]
    /\ cycles = 2
    /\ Len(disk) = 2
    /\ csv_file = "closed"

\* Reached: interrupted between the row written and its flush
C5_WitnessFlush ==
    /\ pc = "returned"
    /\ exc = [type |-> "KeyboardInterrupt", at |-> "flush"]
    /\ Len(DataRows(disk)) = cycles

-----------------------------------------------------------------------------
(* Claims about DataLogger (SpecLogger) *)

LoggedRecords == UNION {{FreshData(k), ExtractAllData(k)} : k \in 0..(cycles - 1)}

\* C10: after any sequence of initialize() and log_data() calls, a sink file
\* that exists holds the header row (the NetworkData field names in
\* declaration order) exactly once, as its first row, and every other row is
\* a data row with one cell per field name, in that order.
C10_HeaderOnceFirst ==
    /\ csv_buf = <<>>
    /\ Header.cells = FieldNames
    /\ csv_file = "none" <=> disk = <<>>
    /\ disk # <<>> =>
          /\ disk[1] = Header
          /\ \A i \in 2..Len(disk) :
                /\ disk[i].kind = "row"
                /\ Len(disk[i].cells) = Len(FieldNames)
                /\ \E d \in LoggedRecords :
                      \A j \in 1..Len(FieldNames) : disk[i].cells[j] = d[FieldNames[j]]

\* Reached: three log_data calls of which the file holds one row
C10_Witness ==
    /\ cycles = 3
    /\ is_initialized
    /\ Len(disk) = 2
    /\ disk[2] = Row(data)

\* Reached: three rows under the header
C10_WitnessRows ==
    /\ Len(disk) = 4
    /\ disk[4] = Row(data)

-----------------------------------------------------------------------------
(* The serial channel when start() returns (SpecMonitor) *)

\* C13 as stated: whenever start() has returned, True or False, the serial
\* channel opened by connect() is closed.
C13_ChannelClosedOnReturn == pc = "returned" => ~serial_open

\* Reached: the port opened, the probe got no OK, start() returned False and
\* the port is still open
C13_Witness ==
    /\ pc = "returned"
    /\ result = "False"
    /\ serial_open
    /\ ~CheckOk(SendCommand(AT_PROBE))

-----------------------------------------------------------------------------
(* Claims about the serving-cell layouts, checked under Spec *)

\* The four layouts: the technology token that selects the layout, its
\* minimum token count and its field positions
C11_Layouts ==
    << [tech |-> S_LTE, min |-> 18, map |-> LteMap(0)],
       [tech |-> S_NR5G_SA, min |-> 17, map |-> Nr5gSaMap],
       [tech |-> S_NR5G_NSA, min |-> 11, map |-> Nr5gNsaMap],
       [tech |-> S_WCDMA, min |-> 17, map |-> WcdmaMap] >>

\* Every field some layout maps
C11_MappedFields ==
    UNION {{C11_Layouts[l].map[k].f : k \in 1..Len(C11_Layouts[l].map)} :
             l \in 1..Len(C11_Layouts)}

\* The tokens of the serving-cell line, when the response is that one line
C11_Tokens == Split(modem[AT_SERVINGCELL].lines[1], ",")

C11_OneServingLine ==
    /\ "serving_cell" \in done
    /\ Len(modem[AT_SERVINGCELL].lines) = 2
    /\ StartsWith(modem[AT_SERVINGCELL].lines[1], S_QENG_SERVINGCELL)
    /\ Len(C11_Tokens) >= 3

\* C11: for each of the four layouts, a serving-cell line with fewer tokens
\* than the layout's minimum (18, 17, 11, 17) sets the common prefix only and
\* leaves every mapped field at its default, and a line with exactly the
\* minimum sets every mapped field of the layout to its token of that line.
C11_MinimumTokenCount ==
    C11_OneServingLine =>
        \A l \in 1..Len(C11_Layouts) :
            LET layout == C11_Layouts[l]
            IN  Strip(C11_Tokens[3], Quote) = layout.tech =>
                  /\ data.rrc_state = Strip(C11_Tokens[2], Quote)
                  /\ data.technology = layout.tech
                  /\ data.cell_type = S_serving
                  /\ Len(C11_Tokens) < layout.min =>
                        \A f \in C11_MappedFields : data[f] = <<>>
                  /\ Len(C11_Tokens) = layout.min =>
                        /\ \A k \in 1..Len(layout.map) :
                              data[layout.map[k].f] =
                                  Strip(C11_Tokens[layout.map[k].i + 1], Quote)
                        /\ \A f \in C11_MappedFields :
                              (\A k \in 1..Len(layout.map) : layout.map[k].f # f)
                                  => data[f] = <<>>

\* Reached: a WCDMA line of exactly 17 tokens, every mapped field written
C11_Witness ==
    /\ C11_OneServingLine
    /\ Len(C11_Tokens) = 17
    /\ data.technology = S_WCDMA
    /\ data.mcc = <<"1","5">>
    /\ data.pci = <<"3">>
    /\ data.rsrp = <<"-","7">>

\* Reached: an NR5G-NSA line one token short, only the common prefix set
C11_WitnessShort ==
    /\ C11_OneServingLine
    /\ Len(C11_Tokens) = 10
    /\ data.technology = S_NR5G_NSA
    /\ data.rrc_state = <<"N","O","C","O","N","N">>
    /\ data.mcc = <<>>

-----------------------------------------------------------------------------
(* Claims about send_command (SpecCommand) *)

C12_Terminator(line) ==
    \/ line = <<"O","K">>
    \/ line = <<"E","R","R","O","R">>
    \/ (Len(line) >= 10 /\ SubSeq(line, 1, 10) = <<"+","C","M","E"," ","E","R","R","O","R">>)

\* The non-blank lines that arrived before the timeout, stripped
C12_Arrived ==
    LET dev == modem[AT_PROBE]
    IN  SelectSeq([i \in 1..dev.arrived |-> Strip(dev.lines[i], Whitespace)],
                  LAMBDA l : l # <<>>)

C12_Terminators == {i \in 1..Len(C12_Arrived) : C12_Terminator(C12_Arrived[i])}

\* C12: send_command always returns; a terminator line (OK, ERROR, or one
\* starting with +CME ERROR) in the returned sequence is its last line: the
\* sequence ends at the first terminator that arrived, or holds all that
\* arrived before the timeout; on a closed port or a transport fault the
\* empty sequence is returned and nothing is raised.
C12_StopsAtTerminator ==
    pc = "returned" =>
        /\ exc = NoExc
        /\ \A i \in 1..Len(response_lines) :
              C12_Terminator(response_lines[i]) => i = Len(response_lines)
        /\ (~serial_open \/ modem[AT_PROBE].fault) => response_lines = <<>>
        /\ (serial_open /\ ~modem[AT_PROBE].fault) =>
              IF C12_Terminators = {} THEN response_lines = C12_Arrived
              ELSE response_lines = SubSeq(C12_Arrived, 1,
                                     CHOOSE i \in C12_Terminators :
                                        \A j \in C12_Terminators : i <= j)

\* Reached: the read stopped at +CME ERROR with a further line waiting
C12_Witness ==
    /\ pc = "returned"
    /\ Len(response_lines) = 2
    /\ response_lines[2] = <<"+","C","M","E"," ","E","R","R","O","R",":"," ","1","0">>
    /\ Len(C12_Arrived) = 3

\* Reached: the timeout elapsed with no terminator read
C12_WitnessTimeout ==
    /\ pc = "returned"
    /\ response_lines = <<L_CSQ, <<"L","O","O","K">>>>

\* Reached: a transport fault after lines had arrived
C12_WitnessFault ==
    /\ pc = "returned"
    /\ serial_open
    /\ modem[AT_PROBE].fault
    /\ C12_Arrived # <<>>
    /\ response_lines = <<>>

-----------------------------------------------------------------------------
(* Claims about the registration decoders and the token positions (Spec) *)

\* The four domains: the query, the marker of its lines and its three fields
C14_Domains ==
    << [c |-> AT_CREG, prefix |-> S_CREG, s |-> "cs_state", a |-> "cs_lac", i |-> "cs_ci"],
       [c |-> AT_CGREG, prefix |-> S_CGREG, s |-> "ps_state", a |-> "ps_lac", i |-> "ps_ci"],
       [c |-> AT_CEREG, prefix |-> S_CEREG, s |-> "eps_state", a |-> "eps_tac",
        i |-> "eps_ci"],
       [c |-> AT_C5GREG, prefix |-> S_C5GREG, s |-> "nr5g_state", a |-> "nr5g_tac",
        i |-> "nr5g_ci"] >>

\* The three fields of a domain are what this one line decodes to
C14_FromLine(dom, line) ==
    LET alone == RegLine(line, dom.prefix, dom.s, dom.a, dom.i, NetworkData)
    IN  /\ data[dom.s] = alone[dom.s]
        /\ data[dom.a] = alone[dom.a]
        /\ data[dom.i] = alone[dom.i]

\* C14 as stated: for each of the four domains and any sequence of response
\* lines, the state and the two identifiers of the domain come from one and
\* the same response line (or no line matched and all three are empty).
C14_FieldsFromOneLine ==
    "nas_states" \in done =>
        \A d \in 1..Len(C14_Domains) :
            LET dom == C14_Domains[d]
                lines == SendCommand(dom.c)
            IN  \/ data[dom.s] = <<>> /\ data[dom.a] = <<>> /\ data[dom.i] = <<>>
                \/ \E k \in 1..Len(lines) : C14_FromLine(dom, lines[k])

\* Reached: the state of the later, shorter line next to the identifiers of
\* the earlier line
C14_Witness ==
    /\ "nas_states" \in done
    /\ modem[AT_CREG].lines =
          <<S_CREG \o <<" ","2",",","1",",","\"","1","A","2","B","\"",",","\"","3","C","4","D","5","E","\"">>, S_CREG \o <<" ","2",",","5">>, S_OK>>
    /\ data.cs_state = <<"R","E","G","I","S","T","E","R","E","D","_","R","O","A","M","I","N","G">>
    /\ data.cs_lac = <<"1","A","2","B">>
    /\ data.cs_ci = <<"3","C","4","D","5","E">>

\* The fields a serving-cell layout maps
C15_LayoutFields ==
    {"mcc", "mnc", "cell_id", "pci", "tac_lac", "earfcn_arfcn", "band", "bandwidth",
     "scs", "rsrp", "rsrq", "rssi", "sinr", "cqi", "tx_power"}

\* The layout a technology token selects, in the order of the source's tests
C15_Map(technology) ==
    IF Contains(technology, S_LTE) THEN LteMap(0)
    ELSE IF Contains(technology, S_NR5G_SA) THEN Nr5gSaMap
    ELSE IF Contains(technology, S_NR5G_NSA) THEN Nr5gNsaMap
    ELSE IF Contains(technology, S_WCDMA) THEN WcdmaMap
    ELSE <<>>

\* C15 as stated: for the layout applied to the decoded serving-cell line, each token
\* position feeds at most one field: no two fields of the layout read the
\* same position, none reads position 1 or 2 (rrc_state and technology), and
\* so no layout field holds the rrc_state or technology token.
C15_OnePositionOneField ==
    ("serving_cell" \in done /\ \E f \in C15_LayoutFields : data[f] # <<>>) =>
        LET map == C15_Map(data.technology)
        IN  /\ \A j, k \in 1..Len(map) : j # k => map[j].i # map[k].i
            /\ \A k \in 1..Len(map) : map[k].i \notin {1, 2}
            /\ \A f \in C15_LayoutFields :
                  data[f] # <<>> => (data[f] # data.rrc_state /\ data[f] # data.technology)

\* Reached: an NR5G-NSA line decoded with its rrc_state token as mcc and its
\* technology token as mnc
C15_Witness ==
    /\ "serving_cell" \in done
    /\ modem[AT_SERVINGCELL].lines = <<L_SERVING_NSA, S_OK>>
    /\ data.rrc_state = <<"N","O","C","O","N","N">>
    /\ data.mcc = <<"N","O","C","O","N","N">>
    /\ data.technology = S_NR5G_NSA
    /\ data.mnc = S_NR5G_NSA
    /\ data.pci = <<"3","1","0">>

=============================================================================
